---- MODULE Spec2Model ----
(***************************************************************************)
(* Model of syris.bodies.mesh.Mesh (src/syris/bodies/mesh.py): the         *)
(* homogeneous triangle buffers, construction, transform(), sort(),        *)
(* get_degenerate_triangles(), max_triangle_x_diff and _project().         *)
(*                                                                         *)
(* A buffer is a sequence of columns <<x, y, z, w>>; column i of the model *)
(* (1-based) is column i-1 of the numpy array.  All lengths are integers   *)
(* in micrometres (the magnitudes after rescale(q.um)); the inputs are     *)
(* given in micrometres and are multiples of 2N for an array of N columns, *)
(* so that np.mean and the bounding-box midpoint are exact integers.       *)
(***************************************************************************)
EXTENDS Integers, Sequences, FiniteSets, Bags, TLC

VARIABLES
    arg,             \* the constructor's arguments (history)
    exists,          \* the constructor returned: there is a Mesh
    triangles,       \* self._triangles, the rest pose
    current,         \* self._current
    furthest_point,  \* self._furthest_point, squared
    sorts,           \* sort() calls since the last transform(), up to 2 (history)
    ret              \* the last call: its name, arguments and result

vars == <<arg, exists, triangles, current, furthest_point, sorts, ret>>

(* ------------------------------ bounds -------------------------------- *)

\* Largest number of vertex columns of a constructor argument.
MaxVerts == 6

\* Largest x-coordinate step of the exhaustive sort inputs (x in 0..MaxX).
MaxX == 2

(* ----------------------------- arithmetic ----------------------------- *)

Abs(a) == IF a < 0 THEN -a ELSE a

Max2(a, b) == IF a >= b THEN a ELSE b

Min2(a, b) == IF a <= b THEN a ELSE b

RECURSIVE SeqSum(_)
SeqSum(s) == IF s = <<>> THEN 0 ELSE Head(s) + SeqSum(Tail(s))

\* max / np.max of a non-empty row
RECURSIVE SeqMax(_)
SeqMax(s) == IF Len(s) = 1 THEN s[1] ELSE Max2(Head(s), SeqMax(Tail(s)))

\* min of a non-empty row
RECURSIVE SeqMin(_)
SeqMin(s) == IF Len(s) = 1 THEN s[1] ELSE Min2(Head(s), SeqMin(Tail(s)))

\* np.mean of a non-empty row (exact: every reachable row sum is a multiple of N)
Mean(s) == SeqSum(s) \div Len(s)

\* seq[::-1]
Reverse(s) == [i \in 1..Len(s) |-> s[Len(s) + 1 - i]]

\* np.ceil(num / den) for den > 0
CeilDiv(num, den) == -((-num) \div den)

\* int(num / den): truncation towards zero, den > 0
TruncDiv(num, den) == IF num >= 0 THEN num \div den ELSE -((-num) \div den)

(* ------------------------------ buffers ------------------------------- *)

\* self._current[axis, :]
Row(buf, axis) == [i \in 1..Len(buf) |-> buf[i][axis + 1]]

\* Mesh._compute with func = min, max, np.mean
ComputeMin(buf, axis) == SeqMin(Row(buf, axis))

ComputeMax(buf, axis) == SeqMax(Row(buf, axis))

ComputeMean(buf, axis) == Mean(Row(buf, axis))

\* Mesh.num_triangles: Python 2 integer division
num_triangles(buf) == Len(buf) \div 3

\* Mesh.extrema: ((z_min, z_max), (y_min, y_max), (x_min, x_max)), 0-based
\* index k of the code is element k + 1 here.
extrema(buf) ==
    << <<ComputeMin(buf, 2), ComputeMax(buf, 2)>>,
       <<ComputeMin(buf, 1), ComputeMax(buf, 1)>>,
       <<ComputeMin(buf, 0), ComputeMax(buf, 0)>> >>

\* Mesh.center_of_gravity: (z, y, x)
center_of_gravity(buf) ==
    <<ComputeMean(buf, 2), ComputeMean(buf, 1), ComputeMean(buf, 0)>>

\* get_middle inside Mesh.center_of_bbox
get_middle(ends) == (ends[1] + ends[2]) \div 2

\* Mesh.center_of_bbox: (z, y, x)
center_of_bbox(buf) == [k \in 1..3 |-> get_middle(extrema(buf)[k])]

(* ---------------------------- construction ---------------------------- *)

\* np.insert(triangles, 3, np.ones(N), axis=0): homogeneous columns
InsertOnes(tri) == [i \in 1..Len(tri) |-> <<tri[i][1], tri[i][2], tri[i][3], 1>>]

\* np.insert(point[::-1], 3, 1): a centre column with w = 1
CenterColumnWithOne(point) == <<point[3], point[2], point[1], 1>>

\* np.insert(point[::-1], 3, 0): the (z, y, x) centre as an (x, y, z, 0) column
CenterColumn(point) == <<point[3], point[2], point[1], 0>>

\* The local-origin point chosen by the center argument, as (z, y, x).
CenterPoint(buf, center) ==
    IF center.kind = "gravity" THEN center_of_gravity(buf)
    ELSE IF center.kind = "bbox" THEN center_of_bbox(buf)
    ELSE center.point

\* self._current -= point
Recenter(buf, point) ==
    LET p == CenterColumn(point)
    IN  [i \in 1..Len(buf) |-> [k \in 1..4 |-> buf[i][k] - p[k]]]

\* self._current after lines 34-44
InitialCurrent(tri, center) ==
    IF center.kind = "none" THEN InsertOnes(tri)
    ELSE Recenter(InsertOnes(tri), CenterPoint(InsertOnes(tri), center))

\* points = triangles - center_of_gravity[::-1]; the squared norm of each
\* column.  The centre of gravity is read from self._current, i.e. after the
\* recentring of line 44.
SquaredNorms(tri, buf) ==
    LET c == Reverse(center_of_gravity(buf))
    IN  [i \in 1..Len(tri) |->
            (tri[i][1] - c[1]) * (tri[i][1] - c[1])
          + (tri[i][2] - c[2]) * (tri[i][2] - c[2])
          + (tri[i][3] - c[3]) * (tri[i][3] - c[3])]

\* self._furthest_point, kept as its square (np.sqrt is monotone, so the
\* maximum of the norms is the root of the maximum of the squared norms).
FurthestPointSq(tri, buf) == SeqMax(SquaredNorms(tri, buf))

\* Mesh.__init__ raises ValueError for an empty array: np.max of a zero-size
\* array has no identity; there is no other check of the vertex count.
ConstructorRaises(tri) == Len(tri) = 0

NoRet == [op |-> "none"]

Construct(tri, center) ==
    /\ arg = [triangles |-> tri, center |-> center]
    /\ sorts = 0
    /\ IF ConstructorRaises(tri)
       THEN /\ exists = FALSE
            /\ triangles = <<>>
            /\ current = <<>>
            /\ furthest_point = 0
            /\ ret = [op |-> "__init__", raised |-> "ValueError"]
       ELSE /\ exists = TRUE
            /\ current = InitialCurrent(tri, center)
            /\ triangles = InitialCurrent(tri, center)
            /\ furthest_point = FurthestPointSq(tri, InitialCurrent(tri, center))
            /\ ret = NoRet

(* ------------------------------ matrices ------------------------------ *)

\* One entry of np.dot(matrix, column)
DotRow(row, col) == row[1] * col[1] + row[2] * col[2] + row[3] * col[3] + row[4] * col[4]

\* np.dot(matrix, column) for a 4x4 matrix given as its four rows
MatVec(m, col) ==
    <<DotRow(m[1], col), DotRow(m[2], col), DotRow(m[3], col), DotRow(m[4], col)>>

\* np.dot(matrix, buffer)
MatBuf(m, buf) == [i \in 1..Len(buf) |-> MatVec(m, buf[i])]

\* The affine matrix of rotation rows rot and translation t.
Affine(rot, t) ==
    << <<rot[1][1], rot[1][2], rot[1][3], t[1]>>,
       <<rot[2][1], rot[2][2], rot[2][3], t[2]>>,
       <<rot[3][1], rot[3][2], rot[3][3], t[3]>>,
       <<0, 0, 0, 1>> >>

\* np.linalg.inv of a rigid affine matrix [R t; 0 1]: [R^T  -R^T t; 0 1]
Inv(m) ==
    LET rt == [r \in 1..3 |-> [c \in 1..3 |-> m[c][r]]]
        t  == <<m[1][4], m[2][4], m[3][4]>>
        it == [r \in 1..3 |-> -(rt[r][1] * t[1] + rt[r][2] * t[2] + rt[r][3] * t[3])]
    IN  Affine(rt, it)

Identity3 == << <<1, 0, 0>>, <<0, 1, 0>>, <<0, 0, 1>> >>

\* quarter turn about z: (x, y, z) -> (-y, x, z)
QuarterZ == << <<0, -1, 0>>, <<1, 0, 0>>, <<0, 0, 1>> >>

\* quarter turn about x: (x, y, z) -> (x, -z, y)
QuarterX == << <<1, 0, 0>>, <<0, 0, -1>>, <<0, 1, 0>> >>

\* The poses get_rescaled_transform_matrix(q.um) may return (MovableBody is
\* an external collaborator): rigid motions.
Poses ==
    { Affine(Identity3, <<0, 0, 0>>),
      Affine(Identity3, <<-3, -1, 0>>),
      Affine(QuarterZ, <<40, 0, 0>>),
      Affine(QuarterX, <<0, 1, 0>>) }

(* -------------------------------- sort -------------------------------- *)

\* np.argmin in place of np.argmax
ArgMinFirst(row) ==
    CHOOSE k \in 0..(Len(row) - 1) :
        /\ \A j \in 1..Len(row) : row[j] >= row[k + 1]
        /\ \A j \in 1..k : row[j] > row[k + 1]

\* np.argmax of one row of x: the first index (0-based) of the maximum
ArgMaxFirst(row) ==
    CHOOSE k \in 0..(Len(row) - 1) :
        /\ \A j \in 1..Len(row) : row[j] <= row[k + 1]
        /\ \A j \in 1..k : row[j] < row[k + 1]

\* x = self._current[0, :].reshape(num_triangles, 3); row t is 0-based
XOfTriangle(buf, t) == <<buf[3 * t + 1][1], buf[3 * t + 2][1], buf[3 * t + 3][1]>>

\* representatives = np.argmax(x, axis=1) + factor: 0-based column indices
Representatives(buf) ==
    [t \in 1..num_triangles(buf) |-> ArgMaxFirst(XOfTriangle(buf, t - 1)) + 3 * (t - 1)]

\* self._current[0, representatives]
RepresentativeX(buf) ==
    LET reps == Representatives(buf)
    IN  [t \in 1..num_triangles(buf) |-> buf[reps[t] + 1][1]]

\* argsort in descending order
ArgSortDescending(keys) ==
    LET n == Len(keys)
    IN  {p \in [1..n -> 0..(n - 1)] :
            /\ \A i, j \in 1..n : i # j => p[i] # p[j]
            /\ \A i \in 1..(n - 1) : keys[p[i] + 1] >= keys[p[i + 1] + 1]}

\* The results np.argsort(keys) may return: every 0-based permutation that
\* puts the keys in ascending order (the default kind is not stable, the
\* order of equal keys is unspecified).
ArgSortResults(keys) ==
    LET n == Len(keys)
    IN  {p \in [1..n -> 0..(n - 1)] :
            /\ \A i, j \in 1..n : i # j => p[i] # p[j]
            /\ \A i \in 1..(n - 1) : keys[p[i] + 1] <= keys[p[i + 1] + 1]}

\* indices[::3] = base; indices[1::3] = base + 1; indices[2::3] = base + 2
\* with base = 3 * perm
Indices(perm) ==
    [i \in 1..(3 * Len(perm)) |-> 3 * perm[((i - 1) \div 3) + 1] + ((i - 1) % 3)]

\* The swap without line 166: the representatives' columns keep their values
SwapWithoutWriteBack(buf) ==
    LET reps == Representatives(buf)
    IN  [i \in 1..Len(buf) |->
            IF i % 3 = 0 THEN buf[reps[i \div 3] + 1] ELSE buf[i]]

\* Lines 164-166: tmp = copy of the C columns; the C columns take the
\* representatives; the representatives' columns take tmp.
SwapRepresentatives(buf) ==
    LET reps == Representatives(buf)
        tmp  == [t \in 1..num_triangles(buf) |-> buf[3 * t]]
        one  == [i \in 1..Len(buf) |->
                    IF i % 3 = 0 THEN buf[reps[i \div 3] + 1] ELSE buf[i]]
    IN  [i \in 1..Len(buf) |->
            IF reps[((i - 1) \div 3) + 1] + 1 = i
            THEN tmp[((i - 1) \div 3) + 1] ELSE one[i]]

\* self._current[:, indices]
Take(buf, indices) == [i \in 1..Len(indices) |-> buf[indices[i] + 1]]

\* reshape(num_triangles, 3) of a row of N values raises ValueError unless
\* N = 3 * num_triangles
ReshapeRaises(buf) == Len(buf) # 3 * num_triangles(buf)

\* The buffers sort() may leave in self._current.
SortResults(buf) ==
    LET swapped == SwapRepresentatives(buf)
    IN  {Take(swapped, Indices(p)) : p \in ArgSortResults(RepresentativeX(buf))}

(* ------------------------------ transform ----------------------------- *)

\* Mesh.transform with the pose the body currently has
Transformed(rest, pose) == MatBuf(Inv(pose), rest)

(* ----------------------- vectors, normals, x-diff ---------------------- *)

\* a - b on the spatial rows (self._current[:-1, ...])
Sub3(a, b) == <<a[1] - b[1], a[2] - b[2], a[3] - b[3]>>

\* np.cross of two 3-vectors
Cross(u, v) ==
    <<u[2] * v[3] - u[3] * v[2], u[3] * v[1] - u[1] * v[3], u[1] * v[2] - u[2] * v[1]>>

Dot3(u, v) == u[1] * v[1] + u[2] * v[2] + u[3] * v[3]

\* Mesh.normals: cross(B - A, C - A) for every triangle
normals(buf) ==
    [t \in 1..num_triangles(buf) |->
        Cross(Sub3(buf[3 * t - 1], buf[3 * t - 2]), Sub3(buf[3 * t], buf[3 * t - 2]))]

\* Mesh.max_triangle_x_diff as computed: d_0 over (x_1, x_0), d_1 over
\* (x_1, x_2), d_2 over (x_2, x_1)
max_triangle_x_diff(buf) ==
    LET nt  == num_triangles(buf)
        x_0 == [t \in 1..nt |-> buf[3 * t - 2][1]]
        x_1 == [t \in 1..nt |-> buf[3 * t - 1][1]]
        x_2 == [t \in 1..nt |-> buf[3 * t][1]]
        d_0 == SeqMax([t \in 1..nt |-> Abs(x_1[t] - x_0[t])])
        d_1 == SeqMax([t \in 1..nt |-> Abs(x_1[t] - x_2[t])])
        d_2 == SeqMax([t \in 1..nt |-> Abs(x_2[t] - x_1[t])])
    IN  Max2(d_0, Max2(d_1, d_2))

(* ---------------------- get_degenerate_triangles ---------------------- *)

\* The tolerances (degrees) a caller passes: 0 and the default 1e-3.
Tolerances == {"0", "1e-3"}

\* ray = np.dot(np.linalg.inv(matrix), [0, 0, 1, 1])[:-1]
Ray(matrix) ==
    LET r == MatVec(Inv(matrix), <<0, 0, 1, 1>>) IN <<r[1], r[2], r[3]>>

\* diff <= eps in place of diff < eps
AtOrBelowTolerance(d, m2, eps) ==
    IF m2 = 0 \/ d * d > m2 THEN FALSE ELSE d = 0

\* np.abs(np.rad2deg(np.arccos(d / sqrt(m2))) - 90) < eps, for integers d
\* (= normal . ray) and m2 (= |normal|^2).  arccos is nan for m2 = 0 and for
\* d^2 > m2, and a comparison with nan is False.  Otherwise the deviation
\* from 90 degrees is arcsin(|d| / sqrt(m2)):
\*   eps = 0:    never below the tolerance;
\*   eps = 1e-3: sin(1e-3 deg) < 1 / 57295 and |normal| < 46341 for every
\*               m2 a 32-bit integer holds, so a non-zero integer d gives
\*               |d| / sqrt(m2) > sin(eps): only d = 0 is below the tolerance.
BelowTolerance(d, m2, eps) ==
    IF m2 = 0 \/ d * d > m2 THEN FALSE
    ELSE IF eps = "0" THEN FALSE
    ELSE d = 0

\* indices = np.where(diff < eps)[0]: 0-based triangle indices, ascending
DegenerateSet(buf, matrix, eps) ==
    LET n   == normals(buf)
        ray == Ray(matrix)
    IN  {t \in 0..(num_triangles(buf) - 1) :
            BelowTolerance(Dot3(n[t + 1], ray), Dot3(n[t + 1], n[t + 1]), eps)}

RECURSIVE Ascending(_)
Ascending(set) ==
    IF set = {} THEN <<>>
    ELSE LET m == CHOOSE x \in set : \A y \in set : x <= y
         IN  <<m>> \o Ascending(set \ {m})

DegenerateIndices(buf, matrix, eps) == Ascending(DegenerateSet(buf, matrix, eps))

\* close = np.dot(matrix, self._current[:, 3 * indices])
Close(buf, matrix, indices) ==
    [i \in 1..Len(indices) |-> MatVec(matrix, buf[3 * indices[i] + 1])]

\* np.round(num / den) for den > 0: to the nearest integer, halves to even
RoundHalfEven(num, den) ==
    LET f == num \div den
        r == num - f * den
    IN  IF 2 * r < den THEN f
        ELSE IF 2 * r > den THEN f + 1
        ELSE IF f % 2 = 0 THEN f ELSE f + 1

\* close[:-1, :] = (close[:-1, :] + 0.5 * scale - offset) / scale, then
\* np.round(close).astype(np.int)
ToPixels(close, scale, offset) ==
    [i \in 1..Len(close) |->
        [k \in 1..4 |->
            IF k = 4 THEN close[i][4]
            ELSE RoundHalfEven(2 * close[i][k] + scale[k] - 2 * offset[k], 2 * scale[k])]]

\* The (scale, offset) pairs a caller passes; "none" leaves real coordinates.
ScaleOffsets ==
    { [given |-> FALSE, scale |-> <<1, 1, 1>>, offset |-> <<0, 0, 0>>],
      [given |-> TRUE, scale |-> <<4, 4, 4>>, offset |-> <<1, 0, 0>>] }

get_degenerate_triangles(buf, matrix, eps, so) ==
    LET indices == DegenerateIndices(buf, matrix, eps)
        close   == Close(buf, matrix, indices)
    IN  [op |-> "get_degenerate_triangles", matrix |-> matrix, eps |-> eps,
         indices |-> indices,
         close |-> IF so.given THEN ToPixels(close, so.scale, so.offset) ELSE close]

(* ------------------------------ _project ------------------------------ *)

\* The (height, width) shapes and (y, x) pixel sizes a caller passes.
Shapes == { <<3, 4>>, <<2, 2>> }

PixelSizes == { <<4, 4>> }

\* What the caller passes as out: nothing, or a buffer of the requested
\* shape holding zeros or holding earlier values.
OutArgs == {"none", "zeros", "filled"}

\* A (height, width) grid holding v in every pixel.
Filled(shape, v) == [r \in 1..shape[1] |-> [c \in 1..shape[2] |-> v]]

\* cl_array.zeros(queue, shape)
Zeros(shape) == Filled(shape, 0)

\* The buffer a caller passes as out.
CallerBuffer(shape, given) ==
    IF given = "zeros" THEN Filled(shape, 0) ELSE Filled(shape, 1)

\* The out buffer before the kernel runs (lines 234-235).
OutBuffer(shape, given) ==
    IF given = "none" THEN Zeros(shape) ELSE CallerBuffer(shape, given)

\* fov = shape * pixel_size
Fov(shape, pixel_size) == <<shape[1] * pixel_size[1], shape[2] * pixel_size[2]>>

\* The test of lines 237-238 without its comparisons against fov
InsideFovLowerOnly(e, fov) ==
    /\ e[3][2] > 0
    /\ e[2][2] > 0

\* The test of lines 237-238.
InsideFov(e, fov) ==
    /\ e[3][1] < fov[2]
    /\ e[3][2] > 0
    /\ e[2][1] < fov[1]
    /\ e[2][2] > 0

\* get_crop(index, fov): index is the code's 0-based index into extrema
get_crop(e, index, fov) ==
    <<Max2(e[index + 1][1], 0), Min2(e[index + 1][2], fov[index])>>

\* get_dimension(minimum, maximum, index): index is 0-based into pixel_size
get_dimension(minimum, maximum, pixel_size, index) ==
    CeilDiv(maximum - minimum, pixel_size[index + 1])

\* The window of lines 240-245: global size (width, height), offset (x, y).
Window(e, shape, pixel_size) ==
    LET fov == Fov(shape, pixel_size)
        x   == get_crop(e, 2, fov)
        y   == get_crop(e, 1, fov)
    IN  [width  |-> Min2(get_dimension(x[1], x[2], pixel_size, 1), shape[2]),
         height |-> Min2(get_dimension(y[1], y[2], pixel_size, 0), shape[1]),
         offset |-> <<TruncDiv(x[1], pixel_size[2]), TruncDiv(y[1], pixel_size[1])>>]

NoWindow == [width |-> 0, height |-> 0, offset |-> <<0, 0>>]

\* What _project returns and what it hands to compute_thickness, for the
\* buffer buf left by transform() and sort().
project(buf, shape, pixel_size, given) ==
    LET e == extrema(buf)
        inside == InsideFov(e, Fov(shape, pixel_size))
    IN  [op |-> "_project", shape |-> shape, pixel_size |-> pixel_size,
         given |-> given, out |-> OutBuffer(shape, given),
         dispatched |-> inside,
         window |-> IF inside THEN Window(e, shape, pixel_size) ELSE NoWindow,
         max_dx |-> IF inside THEN max_triangle_x_diff(buf) ELSE 0,
         min_z |-> IF inside THEN e[1][1] ELSE 0]

(* ------------------------------- inputs ------------------------------- *)

\* Triangles (A, B, C as (x, y, z)) the constructor arguments are made of, in
\* grid steps: facing the ray, edge-on to the ray, and oblique and spread in x.
Shapes3 ==
    { << <<0, 0, 0>>, <<1, 0, 0>>, <<0, 1, 0>> >>,
      << <<0, 0, 0>>, <<0, 1, 0>>, <<0, 0, 1>> >>,
      << <<0, 0, 0>>, <<1, 1, 0>>, <<2, 0, 1>> >> }

\* The columns of a sequence of triangles, one after the other.
RECURSIVE Flatten(_)
Flatten(ts) == IF ts = <<>> THEN <<>> ELSE Head(ts) \o Flatten(Tail(ts))

\* An array of n columns in micrometres: grid steps times 2n.
Scaled(cols, n) ==
    [i \in 1..n |-> <<2 * n * cols[i][1], 2 * n * cols[i][2], 2 * n * cols[i][3]>>]

MaxTriangles == (MaxVerts + 2) \div 3

\* Constructor arguments with any number 0..MaxVerts of columns.
AnyInputs ==
    {Scaled(Flatten(ts), n) : ts \in [1..MaxTriangles -> Shapes3], n \in 0..MaxVerts}

\* Constructor arguments whose number of columns is a positive multiple of 3.
ValidInputs == {tri \in AnyInputs : Len(tri) > 0 /\ Len(tri) % 3 = 0}

\* Arrays of whole triangles with every x in 0..MaxX grid steps; y numbers
\* the column, so that every vertex is told apart.
SortInputs ==
    UNION { {Scaled([i \in 1..n |-> <<xs[i], i, 0>>], n) : xs \in [1..n -> 0..MaxX]} :
            n \in {m \in 1..MaxVerts : m % 3 = 0} }

\* The center argument: None, 'gravity', 'bbox', or a (z, y, x) point.
NoCenter == [kind |-> "none", point |-> <<0, 0, 0>>]

Centers ==
    { NoCenter,
      [kind |-> "gravity", point |-> <<0, 0, 0>>],
      [kind |-> "bbox", point |-> <<0, 0, 0>>],
      [kind |-> "point", point |-> <<1, 2, 3>>] }

(* ------------------------------- actions ------------------------------ *)

Init == \E tri \in ValidInputs, center \in Centers : Construct(tri, center)

InitAnyCount == \E tri \in AnyInputs, center \in Centers : Construct(tri, center)

InitSort == \E tri \in SortInputs : Construct(tri, NoCenter)

\* Mesh.transform
Transform ==
    /\ exists
    /\ \E pose \in Poses : current' = Transformed(triangles, pose)
    /\ sorts' = 0
    /\ ret' = [op |-> "transform"]
    /\ UNCHANGED <<arg, exists, triangles, furthest_point>>

\* Mesh.sort, returning
Sort ==
    /\ exists
    /\ ~ReshapeRaises(current)
    /\ \E buf \in SortResults(current) : current' = buf
    /\ sorts' = Min2(sorts + 1, 2)
    /\ ret' = [op |-> "sort", before |-> current]
    /\ UNCHANGED <<arg, exists, triangles, furthest_point>>

\* Mesh.sort, raising at line 151 before anything is written
SortRaises ==
    /\ exists
    /\ ReshapeRaises(current)
    /\ ret' = [op |-> "sort", raised |-> "ValueError"]
    /\ UNCHANGED <<arg, exists, triangles, current, furthest_point, sorts>>

\* Mesh.max_triangle_x_diff, on a buffer of whole triangles
MaxTriangleXDiff ==
    /\ exists
    /\ ~ReshapeRaises(current)
    /\ ret' = [op |-> "max_triangle_x_diff", value |-> max_triangle_x_diff(current)]
    /\ UNCHANGED <<arg, exists, triangles, current, furthest_point, sorts>>

\* Mesh.get_degenerate_triangles, on a buffer of whole triangles
GetDegenerateTriangles ==
    /\ exists
    /\ ~ReshapeRaises(current)
    /\ \E matrix \in Poses, eps \in Tolerances, so \in ScaleOffsets :
          ret' = get_degenerate_triangles(current, matrix, eps, so)
    /\ UNCHANGED <<arg, exists, triangles, current, furthest_point, sorts>>

\* Mesh._project: transform(), sort(), then the overlap test and the dispatch
Project ==
    /\ exists
    /\ ~ReshapeRaises(triangles)
    /\ \E pose \in Poses :
          \E buf \in SortResults(Transformed(triangles, pose)) :
              \E shape \in Shapes, pixel_size \in PixelSizes, given \in OutArgs :
                  /\ current' = buf
                  /\ ret' = project(buf, shape, pixel_size, given)
    /\ sorts' = 1
    /\ UNCHANGED <<arg, exists, triangles, furthest_point>>

\* Mesh._project when sort() raises: transform() has replaced the buffer
ProjectRaises ==
    /\ exists
    /\ ReshapeRaises(triangles)
    /\ \E pose \in Poses : current' = Transformed(triangles, pose)
    /\ sorts' = 0
    /\ ret' = [op |-> "_project", raised |-> "ValueError"]
    /\ UNCHANGED <<arg, exists, triangles, furthest_point>>

Next == Transform \/ Sort \/ MaxTriangleXDiff \/ GetDegenerateTriangles \/ Project

Spec == Init /\ [][Next]_vars

NextAnyCount == Transform \/ Sort \/ SortRaises \/ ProjectRaises

SpecAnyCount == InitAnyCount /\ [][NextAnyCount]_vars

NextSort == Sort \/ MaxTriangleXDiff

SpecSort == InitSort /\ [][NextSort]_vars

NextProject == Transform \/ Sort \/ SortRaises \/ Project \/ ProjectRaises

SpecProject == InitAnyCount /\ [][NextProject]_vars


(* ------------------------------- claims ------------------------------- *)

\* The last call was op and it returned (it did not raise).
Returned(op) == ret.op = op /\ "raised" \notin DOMAIN ret

\* The greatest x of triangle t (1-based) of buf.
GreatestX(buf, t) == SeqMax(XOfTriangle(buf, t - 1))

\* Exactly one vertex of every triangle has the triangle's greatest x.
SingleGreatestVertex(buf) ==
    \A t \in 1..num_triangles(buf) :
        Cardinality({k \in 1..3 : XOfTriangle(buf, t - 1)[k] = GreatestX(buf, t)}) = 1

\* No two triangles have the same greatest x.
DistinctGreatestX(buf) ==
    \A t, u \in 1..num_triangles(buf) : t # u => GreatestX(buf, t) # GreatestX(buf, u)

\* C1 as stated: whatever the buffer, a second sort() with no transform() in
\* between leaves the buffer as the first sort() left it.
C1_SortIdempotent ==
    (Returned("sort") /\ sorts = 2) => current = ret.before

\* C1, amended: a second sort() with no transform() in between leaves the
\* buffer as the first sort() left it when every triangle has a single vertex
\* of greatest x and no two triangles share their greatest x.
C1_SortIdempotentWithoutTies ==
    (Returned("sort") /\ sorts = 2
        /\ SingleGreatestVertex(ret.before) /\ DistinctGreatestX(ret.before))
    => current = ret.before

C1_Witness ==
    /\ Returned("sort") /\ sorts = 2
    /\ num_triangles(current) = 2
    /\ SingleGreatestVertex(ret.before) /\ DistinctGreatestX(ret.before)
    /\ current # triangles

\* C2: after sort() the C vertex of every triangle has an x at least that of
\* its A and B vertices, and the triangles are in non-decreasing order of
\* their C vertex's x.
C2_SortOrders ==
    Returned("sort") =>
        /\ \A t \in 1..num_triangles(current) :
              /\ current[3 * t][1] >= current[3 * t - 2][1]
              /\ current[3 * t][1] >= current[3 * t - 1][1]
        /\ \A t \in 1..(num_triangles(current) - 1) :
              current[3 * t][1] <= current[3 * t + 3][1]

C2_Witness ==
    /\ Returned("sort")
    /\ num_triangles(current) = 2
    /\ GreatestX(ret.before, 1) > GreatestX(ret.before, 2)
    /\ ret.before[3][1] < GreatestX(ret.before, 1)
    /\ current[3][1] < current[6][1]

RECURSIVE BagOfSeq(_)
BagOfSeq(seq) ==
    IF seq = <<>> THEN EmptyBag ELSE SetToBag({Head(seq)}) (+) BagOfSeq(Tail(seq))

\* The multiset of the triangles of buf, each the multiset of its columns.
TriangleBag(buf) ==
    BagOfSeq([t \in 1..num_triangles(buf) |->
                BagOfSeq(<<buf[3 * t - 2], buf[3 * t - 1], buf[3 * t]>>)])

\* The multiset of the squared norms of the triangles' normals (the area
\* of a triangle is half the root of it).
AreaBag(buf) ==
    BagOfSeq([t \in 1..num_triangles(buf) |-> Dot3(normals(buf)[t], normals(buf)[t])])

\* C3: sort() keeps the multiset of triangles, each taken as the collection
\* of its three vertex columns, the multiset of areas and the column count.
C3_SortKeepsContent ==
    Returned("sort") =>
        /\ Len(current) = Len(ret.before)
        /\ TriangleBag(current) = TriangleBag(ret.before)
        /\ AreaBag(current) = AreaBag(ret.before)

C3_Witness ==
    /\ Returned("sort")
    /\ num_triangles(current) = 2
    /\ \E t \in 1..2 : Representatives(ret.before)[t] # 3 * t - 1
    /\ current # ret.before

\* C4 as stated: a constructor argument whose column count is not a positive
\* multiple of 3 yields no Mesh, and every Mesh has exactly three columns
\* for each of its num_triangles triangles.
C4_ConstructorRejectsCount ==
    /\ (Len(arg.triangles) = 0 \/ Len(arg.triangles) % 3 # 0) => ~exists
    /\ exists => Len(current) = 3 * num_triangles(current)

\* The closed (x, y) bounding box of buf has no point in the field of view
\* [0, fov_x] x [0, fov_y].
NoOverlap(buf, shape, pixel_size) ==
    LET e   == extrema(buf)
        fov == Fov(shape, pixel_size)
    IN  \/ e[3][2] < 0
        \/ e[3][1] > fov[2]
        \/ e[2][2] < 0
        \/ e[2][1] > fov[1]

\* C5 as stated: with no overlap a projection call, with or without a caller's
\* out buffer, dispatches no kernel, raises nothing and returns an all-zero
\* grid of the requested shape.
C5_NoOverlapAllZero ==
    (Returned("_project") /\ NoOverlap(current, ret.shape, ret.pixel_size))
    => /\ ~ret.dispatched
       /\ ret.out = Zeros(ret.shape)

\* C5, amended: when a projection call reaches the overlap test and there is
\* no overlap, it dispatches no kernel and returns the out buffer untouched:
\* the all-zero grid of the requested shape it allocated when the caller
\* passed none, else the caller's buffer with the values it held.
C5_NoOverlapUntouched ==
    (Returned("_project") /\ NoOverlap(current, ret.shape, ret.pixel_size))
    => /\ ~ret.dispatched
       /\ ret.window = NoWindow
       /\ ret.given = "none" => ret.out = Zeros(ret.shape)
       /\ ret.given # "none" => ret.out = CallerBuffer(ret.shape, ret.given)

C5_Witness ==
    /\ Returned("_project")
    /\ NoOverlap(current, ret.shape, ret.pixel_size)
    /\ ret.given = "filled"
    /\ ret.out # Zeros(ret.shape)

\* The direction of the projection ray in object space: the inverse of
\* matrix applied to the direction (0, 0, 1).
RayDirection(matrix) ==
    LET r == MatVec(Inv(matrix), <<0, 0, 1, 0>>) IN <<r[1], r[2], r[3]>>

\* The triangles (0-based) of buf whose normal is exactly perpendicular to
\* the projection ray.
EdgeOn(buf, matrix) ==
    {t \in 0..(num_triangles(buf) - 1) :
        /\ normals(buf)[t + 1] # <<0, 0, 0>>
        /\ Dot3(normals(buf)[t + 1], RayDirection(matrix)) = 0}

\* C6 as stated: with tolerance 0 and exactly one triangle exactly
\* perpendicular to the ray, get_degenerate_triangles returns that triangle
\* and no other.
C6_ZeroToleranceReturnsEdgeOn ==
    (Returned("get_degenerate_triangles") /\ ret.eps = "0"
        /\ Cardinality(EdgeOn(current, ret.matrix)) = 1)
    => /\ Len(ret.indices) = 1
       /\ ret.indices[1] \in EdgeOn(current, ret.matrix)

\* C6, amended: with tolerance 0 get_degenerate_triangles returns no
\* triangle, also when a triangle is exactly perpendicular to the ray.
C6_ZeroToleranceReturnsNone ==
    (Returned("get_degenerate_triangles") /\ ret.eps = "0")
    => /\ ret.indices = <<>>
       /\ ret.close = <<>>

C6_Witness ==
    /\ Returned("get_degenerate_triangles") /\ ret.eps = "0"
    /\ Cardinality(EdgeOn(current, ret.matrix)) = 1
    /\ num_triangles(current) = 2
    /\ ret.indices = <<>>

\* The greatest absolute x-difference over the three vertex pairs of the
\* triangles of buf.
MaxPairwiseXDiff(buf) ==
    SeqMax([t \in 1..num_triangles(buf) |->
        Max2(Abs(buf[3 * t - 2][1] - buf[3 * t - 1][1]),
             Max2(Abs(buf[3 * t - 1][1] - buf[3 * t][1]),
                  Abs(buf[3 * t - 2][1] - buf[3 * t][1])))])

\* C7 as stated: max_triangle_x_diff is the greatest absolute x-difference
\* over all three vertex pairs of every triangle.
C7_XDiffOverAllPairs ==
    Returned("max_triangle_x_diff") => ret.value = MaxPairwiseXDiff(current)

\* The squared distance of the furthest column of tri from the mean of the
\* columns of tri.
FurthestFromGravitySq(tri) ==
    LET c == [k \in 1..3 |-> Mean([i \in 1..Len(tri) |-> tri[i][k]])]
    IN  SeqMax([i \in 1..Len(tri) |->
            (tri[i][1] - c[1]) * (tri[i][1] - c[1])
          + (tri[i][2] - c[2]) * (tri[i][2] - c[2])
          + (tri[i][3] - c[3]) * (tri[i][3] - c[3])])

\* C8 as stated: whatever the center argument, furthest_point is the greatest
\* distance of an original vertex from the centre of gravity of the original
\* vertices, at construction and ever after.
C8_FurthestFromOriginalGravity ==
    exists => furthest_point = FurthestFromGravitySq(arg.triangles)

\* C9: from a construction with a positive multiple of 3 columns, the rest
\* buffer and the current buffer keep that same number of columns, and every
\* column of both has w = 1.
C9_BuffersHomogeneous ==
    (exists /\ Len(arg.triangles) > 0 /\ Len(arg.triangles) % 3 = 0)
    => /\ Len(triangles) = Len(current)
       /\ Len(current) = Len(arg.triangles)
       /\ Len(current) % 3 = 0
       /\ \A i \in 1..Len(triangles) : triangles[i][4] = 1
       /\ \A i \in 1..Len(current) : current[i][4] = 1

C9_Witness ==
    /\ Returned("get_degenerate_triangles")
    /\ arg.center.kind = "gravity"
    /\ sorts = 2
    /\ current # triangles
    /\ Len(current) = 6
    /\ \A i \in 1..Len(current) : current[i][4] = 1

\* Pixel i of an axis, covering [i * size, (i + 1) * size), meets [lo, hi].
PixelMeets(i, size, lo, hi) == i * size <= hi /\ lo < (i + 1) * size

\* C10 as stated: the dispatched window lies inside the output grid and
\* holds every pixel column and row that meets the cropped bounding box.
C10_WindowCoversFootprint ==
    (Returned("_project") /\ ret.dispatched)
    => LET fov == Fov(ret.shape, ret.pixel_size)
           x   == get_crop(extrema(current), 2, fov)
           y   == get_crop(extrema(current), 1, fov)
           w   == ret.window
       IN  /\ w.offset[1] >= 0 /\ w.offset[1] + w.width <= ret.shape[2]
           /\ w.offset[2] >= 0 /\ w.offset[2] + w.height <= ret.shape[1]
           /\ \A c \in 0..(ret.shape[2] - 1) :
                 PixelMeets(c, ret.pixel_size[2], x[1], x[2])
                 => (w.offset[1] <= c /\ c < w.offset[1] + w.width)
           /\ \A r \in 0..(ret.shape[1] - 1) :
                 PixelMeets(r, ret.pixel_size[1], y[1], y[2])
                 => (w.offset[2] <= r /\ r < w.offset[2] + w.height)

====
